---- MODULE Spec2Model ----
(***************************************************************************)
(* Crowd_count_estimation: the video-analysis producer/consumer pipeline   *)
(* of the Streamlit dashboard (src/streamlit_UI.py) and the FastAPI        *)
(* prediction endpoints (src/app.py, src/crowd_counter.py).                *)
(*                                                                         *)
(* Spec     the dashboard: main() as the producer / UI thread and          *)
(*          api_worker() as the consumer thread, interleaved at every      *)
(*          queue operation.                                               *)
(* ApiSpec  the API process: startup_event, then the request handlers,     *)
(*          one request at a time (the handlers are async functions that   *)
(*          never await, so the event loop runs each to completion).       *)
(***************************************************************************)
EXTENDS Integers, Sequences, FiniteSets, TLC

(***************************************************************************)
(* Bounds of the model.                                                    *)
(***************************************************************************)
\* fps is the rational fps_num / FpsDen (cv2 reports a float such as 29.97)
FpsDen == 2
MaxFpsNum == 4
\* the slider offers 1..60 seconds; the model draws 1..MaxInterval
MaxInterval == 2
\* readable frames of the longest video
MaxFrames == 3
\* values of "estimated_count" in a 200 response
Counts == {0, 12}

(***************************************************************************)
(* State of the dashboard.                                                 *)
(***************************************************************************)
VARIABLES
    fps_num,            \* fps * FpsDen                              (line 165)
    interval,           \* the slider's value                        (line 153)
    nframes,            \* frames cap.read() returns before ret = False
    frame_count,        \* CAP_PROP_FRAME_COUNT as reported          (line 166)
    mpc,                \* position of main()
    current_frame,      \*                                           (line 197)
    frames_to_process,  \*                                           (line 172)
    results_list,       \*                                           (line 177)
    status,             \* what status_placeholder shows
    task_queue,         \*                                           (line 175)
    result_queue,       \*                                           (line 176)
    wpc,                \* position of api_worker()
    item,               \* the worker's local `item`
    inflight,           \* /predict requests the worker is waiting for
    threads,            \* worker threads started
    enqueued,           \* history: every item put on task_queue, in order
    dequeued,           \* history: every item the worker got, in order
    produced            \* history: every record put on result_queue, in order

videoVars == <<fps_num, interval, nframes, frame_count, mpc, current_frame,
               frames_to_process, results_list, status, task_queue,
               result_queue, wpc, item, inflight, threads, enqueued,
               dequeued, produced>>

(***************************************************************************)
(* State of the API process (src/app.py).                                  *)
(***************************************************************************)
VARIABLES
    api_started,    \* startup_event has run; requests are served after it
    crowd_counter,  \* the global CrowdCounter, or None          (line 36)
    model_loaded,   \*                                            (line 37)
    tried,          \* history: the configurations startup tried, in order
    lwcc_loads,     \* the configurations LWCC.load_model succeeded for at
                    \* startup (the weights could be fetched and read)
    clock,          \* int(time.time())
    uploads,        \* the files under uploads/: path -> content
    response,       \* the response to the request, None before it
    last            \* history: what the request did

apiVars == <<api_started, crowd_counter, model_loaded, tried, lwcc_loads,
             clock, uploads, response, last>>

\* the seconds the clock runs through
MaxClock == 1

(***************************************************************************)
(* The dashboard: helpers of main() and api_worker().                      *)
(***************************************************************************)
\* the sentinel None; a task is the tuple (timestamp, img_bytes_io)
None == <<>>

\* item is None
IsSentinel(it) == it = None

\* int(fps * interval): int() truncates, the operands are positive
FramesToProcess(fn, iv) == (fn * iv) \div FpsDen

\* current_frame / fps, as the fraction <<numerator, denominator>>
Timestamp(i, fn) == <<i * FpsDen, fn>>

\* current_frame % frames_to_process == 0
OnIntervalShifted(i, k) == (i + 1) % k = 0
OnIntervalAlways(i, k) == TRUE
OnInterval(i, k) == i % k = 0

\* the task pushed for frame i: the frame's bytes are identified by its index
Task(i, fn) == <<Timestamp(i, fn), i>>

\* not q.empty()
NotEmptyStale(q) == TRUE
NotEmpty(q) == q # <<>>

\* round(x, 1) in tenths, x = t[1] / t[2]: to the nearest tenth, a tie to the
\* even one
Round1(t) ==
    LET q == (10 * t[1]) \div t[2]
        r == (10 * t[1]) % t[2]
    IN  IF 2 * r > t[2] THEN q + 1
        ELSE IF 2 * r = t[2] THEN q + (q % 2)
        ELSE q

\* the entry appended to results_list for a successful record
Entry(res) == [Time |-> Round1(res.time), Count |-> res.count]

\* results_list after `res` has been taken from result_queue
Collect(rl, res) == IF res.success THEN Append(rl, Entry(res)) ELSE rl

(***************************************************************************)
(* What requests.post(.../predict, timeout=30) can do to the worker: a 200 *)
(* with a count, another status, or an exception (connection error,        *)
(* timeout, a body that is not JSON).                                      *)
(***************************************************************************)
Outcomes ==
    [kind : {"ok"}, count : Counts]
        \cup [kind : {"status"}, code : {500, 503}]
        \cup [kind : {"raise"}]

\* the records api_worker puts on result_queue for one task
WorkerRecordsLossy(o, ts) ==
    IF o.kind = "ok" THEN <<[success |-> TRUE, time |-> ts, count |-> o.count]>>
    ELSE <<>>
WorkerRecords(o, ts) ==
    IF o.kind = "ok"
    THEN <<[success |-> TRUE, time |-> ts, count |-> o.count]>>
    ELSE IF o.kind = "status"
    THEN <<[success |-> FALSE, error |-> <<"API", o.code>>, time |-> ts]>>
    ELSE <<[success |-> FALSE, error |-> <<"exception">>, time |-> ts]>>

\* requests.post blocks: the worker waits for the response before it loops
PcAfterPostAsync == "get"
PcAfterPost == "wait"

\* worker.is_alive() is False: the final drain follows
PcAfterWorkerDeadNoDrain == "report"
PcAfterWorkerDead == "poll3"

VideoInit ==
    /\ fps_num = 0 /\ interval = 1 /\ nframes = 0 /\ frame_count = 0
    /\ mpc = "idle" /\ current_frame = 0 /\ frames_to_process = 0
    /\ results_list = <<>> /\ status = <<>>
    /\ task_queue = <<>> /\ result_queue = <<>>
    /\ wpc = "none" /\ item = None /\ inflight = 0 /\ threads = 0
    /\ enqueued = <<>> /\ dequeued = <<>> /\ produced = <<>>

(***************************************************************************)
(* main(): the UI thread.                                                  *)
(***************************************************************************)
\* a video is uploaded and the slider set; duration = frame_count / fps
\* raises ZeroDivisionError when cv2 reports fps 0.0
UploadVideo ==
    /\ mpc = "idle"
    /\ \E fn \in 0..MaxFpsNum, iv \in 1..MaxInterval, n \in 0..MaxFrames :
         \E fc \in {0, n} :
            /\ fps_num' = fn /\ interval' = iv /\ nframes' = n
            /\ frame_count' = fc
            /\ mpc' = IF fn = 0 THEN "crashed" ELSE "ready"
    /\ UNCHANGED <<current_frame, frames_to_process, results_list, status,
                   task_queue, result_queue, wpc, item, inflight, threads,
                   enqueued, dequeued, produced>>
    /\ UNCHANGED apiVars

\* "Start Video Analysis": the queues, the worker thread, current_frame = 0
StartAnalysis ==
    /\ mpc = "ready"
    /\ frames_to_process' = FramesToProcess(fps_num, interval)
    /\ task_queue' = <<>> /\ result_queue' = <<>> /\ results_list' = <<>>
    /\ threads' = threads + 1
    /\ wpc' = "get"
    /\ current_frame' = 0
    /\ mpc' = "read"
    /\ UNCHANGED <<fps_num, interval, nframes, frame_count, status, item,
                   inflight, enqueued, dequeued, produced>>
    /\ UNCHANGED apiVars

\* one pass of the producer loop up to the consumer check: cap.read(), and
\* the put when the frame is on the interval; `%` raises ZeroDivisionError
\* when frames_to_process is 0
ReadFrame ==
    /\ mpc = "read"
    /\ IF current_frame >= nframes
       THEN /\ mpc' = "qsize"
            /\ UNCHANGED <<task_queue, enqueued>>
       ELSE IF frames_to_process = 0
       THEN /\ mpc' = "crashed"
            /\ UNCHANGED <<task_queue, enqueued>>
       ELSE IF OnInterval(current_frame, frames_to_process)
       THEN /\ task_queue' = Append(task_queue, Task(current_frame, fps_num))
            /\ enqueued' = Append(enqueued, Task(current_frame, fps_num))
            /\ mpc' = "poll1"
       ELSE /\ mpc' = "poll1"
            /\ UNCHANGED <<task_queue, enqueued>>
    /\ UNCHANGED <<fps_num, interval, nframes, frame_count, current_frame,
                   frames_to_process, results_list, status, result_queue,
                   wpc, item, inflight, threads, dequeued, produced>>
    /\ UNCHANGED apiVars

\* `while not result_queue.empty()` of the producer loop; when it is empty,
\* current_frame += 1 and the progress bar, whose division raises
\* ZeroDivisionError when frame_count is 0
PollWhileReading ==
    /\ mpc = "poll1"
    /\ IF NotEmpty(result_queue)
       THEN /\ mpc' = "get1"
            /\ UNCHANGED current_frame
       ELSE /\ current_frame' = current_frame + 1
            /\ mpc' = IF frame_count = 0 THEN "crashed" ELSE "read"
    /\ UNCHANGED <<fps_num, interval, nframes, frame_count,
                   frames_to_process, results_list, status, task_queue,
                   result_queue, wpc, item, inflight, threads, enqueued,
                   dequeued, produced>>
    /\ UNCHANGED apiVars

\* res = result_queue.get() and its handling; get() blocks on an empty queue
TakeResult(at, next) ==
    /\ mpc = at
    /\ result_queue # <<>>
    /\ results_list' = Collect(results_list, Head(result_queue))
    /\ result_queue' = Tail(result_queue)
    /\ mpc' = next
    /\ UNCHANGED <<fps_num, interval, nframes, frame_count, current_frame,
                   frames_to_process, status, task_queue, wpc, item,
                   inflight, threads, enqueued, dequeued, produced>>
    /\ UNCHANGED apiVars

GetWhileReading == TakeResult("get1", "poll1")

\* remaining = task_queue.qsize() and the info message
QSize ==
    /\ mpc = "qsize"
    /\ status' = IF Len(task_queue) > 0
                 THEN <<"info", Len(task_queue)>> ELSE status
    /\ mpc' = "sentinel"
    /\ UNCHANGED <<fps_num, interval, nframes, frame_count, current_frame,
                   frames_to_process, results_list, task_queue,
                   result_queue, wpc, item, inflight, threads, enqueued,
                   dequeued, produced>>
    /\ UNCHANGED apiVars

\* task_queue.put(None)
PutSentinel ==
    /\ mpc = "sentinel"
    /\ task_queue' = Append(task_queue, None)
    /\ enqueued' = Append(enqueued, None)
    /\ mpc' = "alive"
    /\ UNCHANGED <<fps_num, interval, nframes, frame_count, current_frame,
                   frames_to_process, results_list, status, result_queue,
                   wpc, item, inflight, threads, dequeued, produced>>
    /\ UNCHANGED apiVars

\* while worker.is_alive()
CheckAlive ==
    /\ mpc = "alive"
    /\ mpc' = IF wpc # "done" THEN "poll2" ELSE PcAfterWorkerDead
    /\ UNCHANGED <<fps_num, interval, nframes, frame_count, current_frame,
                   frames_to_process, results_list, status, task_queue,
                   result_queue, wpc, item, inflight, threads, enqueued,
                   dequeued, produced>>
    /\ UNCHANGED apiVars

\* the inner `while not result_queue.empty()`, then time.sleep(0.1)
PollWhileAlive ==
    /\ mpc = "poll2"
    /\ mpc' = IF NotEmpty(result_queue) THEN "get2" ELSE "alive"
    /\ UNCHANGED <<fps_num, interval, nframes, frame_count, current_frame,
                   frames_to_process, results_list, status, task_queue,
                   result_queue, wpc, item, inflight, threads, enqueued,
                   dequeued, produced>>
    /\ UNCHANGED apiVars

GetWhileAlive == TakeResult("get2", "poll2")

\* the final `while not result_queue.empty()`
PollFinal ==
    /\ mpc = "poll3"
    /\ mpc' = IF NotEmpty(result_queue) THEN "get3" ELSE "report"
    /\ UNCHANGED <<fps_num, interval, nframes, frame_count, current_frame,
                   frames_to_process, results_list, status, task_queue,
                   result_queue, wpc, item, inflight, threads, enqueued,
                   dequeued, produced>>
    /\ UNCHANGED apiVars

GetFinal == TakeResult("get3", "poll3")

\* the final status message
Report ==
    /\ mpc = "report"
    /\ status' = IF results_list # <<>> THEN <<"success">> ELSE <<"warning">>
    /\ mpc' = "final"
    /\ UNCHANGED <<fps_num, interval, nframes, frame_count, current_frame,
                   frames_to_process, results_list, task_queue,
                   result_queue, wpc, item, inflight, threads, enqueued,
                   dequeued, produced>>
    /\ UNCHANGED apiVars

(***************************************************************************)
(* api_worker(): the consumer thread.                                      *)
(***************************************************************************)
\* item = task_queue.get(), which blocks on an empty queue; break on None
WorkerGet ==
    /\ wpc = "get"
    /\ task_queue # <<>>
    /\ task_queue' = Tail(task_queue)
    /\ dequeued' = Append(dequeued, Head(task_queue))
    /\ IF IsSentinel(Head(task_queue))
       THEN wpc' = "done" /\ UNCHANGED item
       ELSE wpc' = "post" /\ item' = Head(task_queue)
    /\ UNCHANGED <<fps_num, interval, nframes, frame_count, mpc,
                   current_frame, frames_to_process, results_list, status,
                   result_queue, inflight, threads, enqueued, produced>>
    /\ UNCHANGED apiVars

\* requests.post(...) is called: the request is in flight
WorkerPost ==
    /\ wpc = "post"
    /\ inflight' = inflight + 1
    /\ wpc' = PcAfterPost
    /\ UNCHANGED <<fps_num, interval, nframes, frame_count, mpc,
                   current_frame, frames_to_process, results_list, status,
                   task_queue, result_queue, item, threads, enqueued,
                   dequeued, produced>>
    /\ UNCHANGED apiVars

\* requests.post returns or raises; the record is put on result_queue
WorkerResponse ==
    /\ wpc = "wait"
    /\ \E o \in Outcomes :
         /\ result_queue' = result_queue \o WorkerRecords(o, item[1])
         /\ produced' = produced \o WorkerRecords(o, item[1])
    /\ inflight' = inflight - 1
    /\ wpc' = "get"
    /\ UNCHANGED <<fps_num, interval, nframes, frame_count, mpc,
                   current_frame, frames_to_process, results_list, status,
                   task_queue, item, threads, enqueued, dequeued>>
    /\ UNCHANGED apiVars

VideoNext ==
    \/ UploadVideo
    \/ StartAnalysis
    \/ ReadFrame
    \/ PollWhileReading
    \/ GetWhileReading
    \/ QSize
    \/ PutSentinel
    \/ CheckAlive
    \/ PollWhileAlive
    \/ GetWhileAlive
    \/ PollFinal
    \/ GetFinal
    \/ Report
    \/ WorkerGet
    \/ WorkerPost
    \/ WorkerResponse

(***************************************************************************)
(* Strings are sequences of one-character strings.                         *)
(***************************************************************************)
UpperCase == <<"A", "B", "C", "D", "E", "F", "G", "H", "I", "J", "K", "L", "M",
               "N", "O", "P", "Q", "R", "S", "T", "U", "V", "W", "X", "Y", "Z">>
LowerCase == <<"a", "b", "c", "d", "e", "f", "g", "h", "i", "j", "k", "l", "m",
               "n", "o", "p", "q", "r", "s", "t", "u", "v", "w", "x", "y", "z">>

\* str.lower()
Lower(str) ==
    [i \in 1..Len(str) |->
        IF \E j \in 1..Len(UpperCase) : UpperCase[j] = str[i]
        THEN LowerCase[CHOOSE j \in 1..Len(UpperCase) : UpperCase[j] = str[i]]
        ELSE str[i]]

\* str.rfind(c), 1-based: 0 when c does not occur
RFind(str, c) ==
    IF \E i \in 1..Len(str) : str[i] = c
    THEN CHOOSE i \in 1..Len(str) :
            str[i] = c /\ \A j \in (i + 1)..Len(str) : str[j] # c
    ELSE 0

\* os.path.splitext(p)[1] (posixpath): from the last dot of the last path
\* component, unless that component has only dots before it
SplitExt(str) ==
    LET sepIndex == RFind(str, "/")
        dotIndex == RFind(str, ".")
    IN  IF /\ dotIndex > sepIndex
           /\ \E j \in (sepIndex + 1)..(dotIndex - 1) : str[j] # "."
        THEN SubSeq(str, dotIndex, Len(str))
        ELSE <<>>

\* os.path.splitext(file.filename.lower())[1]
FileExtCaseSensitive(name) == SplitExt(name)
FileExt(name) == SplitExt(Lower(name))

\* allowed_extensions
AllowedExtensions ==
    { <<".", "j", "p", "g">>, <<".", "j", "p", "e", "g">>,
      <<".", "p", "n", "g">>, <<".", "b", "m", "p">>,
      <<".", "t", "i", "f", "f">> }

\* not model_loaded or not crowd_counter or not crowd_counter.model
ModelNotLoadedUnchecked(ml, cc) == FALSE
ModelNotLoaded(ml, cc) == ~ml \/ cc = None \/ cc.model = None

(***************************************************************************)
(* crowd_counter.py and startup_event.                                     *)
(***************************************************************************)
\* model_configs
ModelConfigs ==
    << <<"DM-Count", "SHA">>, <<"CSRNet", "SHA">>, <<"SFANet", "SHA">>,
       <<"CSRNet", "SHB">> >>

\* CrowdCounter.__init__
CrowdCounter(name, weights) ==
    [model_name |-> name, model_weights |-> weights, model |-> None]

\* CrowdCounter.load_model; `loadable` are the configurations
\* LWCC.load_model succeeds for, an exception leaves self.model None
LoadModel(cc, loadable) ==
    IF <<cc.model_name, cc.model_weights>> \in loadable
    THEN [cc EXCEPT !.model = <<"LWCC", cc.model_name, cc.model_weights>>]
    ELSE cc

\* a variant of the loop that has no break: it goes on after a configuration
\* has loaded, so the last loadable configuration is the one that stays
RECURSIVE StartupFromNoBreak(_, _, _)
StartupFromNoBreak(i, loadable, st) ==
    IF i > Len(ModelConfigs) THEN st
    ELSE LET cc == LoadModel(CrowdCounter(ModelConfigs[i][1],
                                          ModelConfigs[i][2]), loadable)
             st2 == [st EXCEPT !.tried = Append(st.tried, ModelConfigs[i])]
         IN  IF cc.model # None
             THEN StartupFromNoBreak(i + 1, loadable,
                      [st2 EXCEPT !.crowd_counter = cc, !.model_loaded = TRUE])
             ELSE StartupFromNoBreak(i + 1, loadable,
                      IF st2.model_loaded THEN st2
                      ELSE [st2 EXCEPT !.crowd_counter = cc])

\* the loop of startup_event from configuration i on
RECURSIVE StartupFrom(_, _, _)
StartupFrom(i, loadable, st) ==
    IF i > Len(ModelConfigs) THEN st
    ELSE LET cc == LoadModel(CrowdCounter(ModelConfigs[i][1],
                                          ModelConfigs[i][2]), loadable)
             st2 == [st EXCEPT !.crowd_counter = cc,
                               !.tried = Append(st.tried, ModelConfigs[i])]
         IN  IF cc.model # None
             THEN [st2 EXCEPT !.model_loaded = TRUE]
             ELSE StartupFrom(i + 1, loadable, st2)

(***************************************************************************)
(* Uploaded files and the file system under uploads/.                      *)
(***************************************************************************)
Put(ups, path, content) ==
    [q \in (DOMAIN ups) \cup {path} |-> IF q = path THEN content ELSE ups[q]]

Remove(ups, path) == [q \in (DOMAIN ups) \ {path} |-> ups[q]]

\* f"uploads/{timestamp}_{upload_file.filename}"
FilePath(now, name) == <<now, name>>

\* save_uploaded_file. `sv` is what the file system does: "ok"; "no_file",
\* makedirs or open raises; "partial", open has created the file and read
\* or write raises. A name with a "/" points into a directory that nothing
\* creates, so open raises. Any exception becomes HTTPException(500).
SaveUploadedFile(ups, file, now, sv) ==
    LET path == FilePath(now, file.filename)
        outcome == IF RFind(file.filename, "/") > 0 THEN "no_file" ELSE sv
    IN  IF outcome = "ok"
        THEN [raised |-> FALSE, path |-> path,
              uploads |-> Put(ups, path, file.content), created |-> {path}]
        ELSE IF outcome = "partial"
        THEN [raised |-> TRUE, path |-> None,
              uploads |-> Put(ups, path, <<"truncated">>), created |-> {path}]
        ELSE [raised |-> TRUE, path |-> None, uploads |-> ups, created |-> {}]

\* the finally block: os.remove(file_path) when file_path is set and the
\* file exists; a failing remove is logged and the file stays
CleanUp(ups, path, rmOk) ==
    IF path # None /\ path \in DOMAIN ups /\ rmOk THEN Remove(ups, path) ELSE ups

\* LWCC.get_count on an image file, in thousandths
ModelCount(content) == 1000 * content[2] + 344

\* round(float(count), 2), from thousandths to hundredths
Round2(c) ==
    LET q == c \div 10
        r == c % 10
    IN  IF r > 5 THEN q + 1 ELSE IF r = 5 THEN q + (q % 2) ELSE q

ModelInfo(cc) == <<cc.model_name, cc.model_weights>>

Error(code, detail) == [status |-> code, detail |-> detail]

\* what a request was and did: the endpoint, the uploads it carried,
\* whether it reached the validation of an upload, the files it created
\* under uploads/, the calls of the model
Did(endpoint, files, validated, created, calls) ==
    [endpoint |-> endpoint, files |-> files, validated |-> validated,
     created |-> created, model_calls |-> calls]

(***************************************************************************)
(* POST /predict. `sv`: see SaveUploadedFile; modelOk: count_people        *)
(* returns the tuple, not None; dmOk: density_map_to_base64 returns the    *)
(* image, not None; postOk: building the response does not raise; rmOk:    *)
(* os.remove does not raise.                                               *)
(***************************************************************************)
PredictRun(ml, cc, file, now, ups, sv, modelOk, dmOk, postOk, rmOk) ==
    IF ModelNotLoaded(ml, cc)
    THEN [response |-> Error(503, "Model not loaded"), uploads |-> ups,
          last |-> Did("predict", <<file>>, FALSE, {}, 0)]
    ELSE IF file.filename = <<>>
    THEN [response |-> Error(400, "No file provided"), uploads |-> ups,
          last |-> Did("predict", <<file>>, TRUE, {}, 0)]
    ELSE IF FileExt(file.filename) \notin AllowedExtensions
    THEN [response |-> Error(400, "File type not supported"), uploads |-> ups,
          last |-> Did("predict", <<file>>, TRUE, {}, 0)]
    ELSE
      LET saved == SaveUploadedFile(ups, file, now, sv)
      IN  IF saved.raised
          THEN [response |-> Error(500, "Failed to save uploaded file"),
                uploads |-> CleanUp(saved.uploads, saved.path, rmOk),
                last |-> Did("predict", <<file>>, TRUE, saved.created, 0)]
          ELSE
            LET after == CleanUp(saved.uploads, saved.path, rmOk)
                did == Did("predict", <<file>>, TRUE, saved.created, 1)
            IN  IF ~modelOk
                THEN [response |-> Error(500, "model returned None"),
                      uploads |-> after, last |-> did]
                ELSE IF ~postOk
                THEN [response |-> Error(500, "Prediction failed"),
                      uploads |-> after, last |-> did]
                ELSE [response |->
                        [status |-> 200, success |-> TRUE,
                         estimated_count |->
                            Round2(ModelCount(saved.uploads[saved.path])),
                         density_map |-> IF dmOk THEN <<"data:image/png">>
                                         ELSE None,
                         model_info |-> ModelInfo(cc)],
                      uploads |-> after, last |-> did]

(***************************************************************************)
(* POST /predict-batch.                                                    *)
(***************************************************************************)
\* len(files) > 10
BatchLimit == 10

\* the validate-and-save loop from file i on; acc carries uploads/, the
\* file_paths so far and the HTTPException raised, if any. fail.at is the
\* file whose save fails, with outcome fail.sv (0: none fails).
RECURSIVE SaveAll(_, _, _, _, _)
SaveAll(i, files, now, acc, fail) ==
    IF i > Len(files) THEN acc
    ELSE IF files[i].filename = <<>>
    THEN [acc EXCEPT !.error = Error(400, "Invalid file provided")]
    ELSE IF FileExt(files[i].filename) \notin AllowedExtensions
    THEN [acc EXCEPT !.error = Error(400, "unsupported type")]
    ELSE
      LET saved == SaveUploadedFile(acc.uploads, files[i], now,
                                    IF i = fail.at THEN fail.sv ELSE "ok")
      IN  IF saved.raised
          THEN [acc EXCEPT !.uploads = saved.uploads,
                           !.created = @ \cup saved.created,
                           !.error = Error(500, "Failed to save uploaded file")]
          ELSE SaveAll(i + 1, files, now,
                       [acc EXCEPT !.uploads = saved.uploads,
                                   !.created = @ \cup saved.created,
                                   !.paths = Append(@, saved.path)],
                       fail)

\* the finally block: every path of file_paths, in order; the remove of
\* path number rmFailAt raises (0: none does)
RECURSIVE CleanUpAll(_, _, _, _)
CleanUpAll(i, paths, ups, rmFailAt) ==
    IF i > Len(paths) THEN ups
    ELSE CleanUpAll(i + 1, paths, CleanUp(ups, paths[i], i # rmFailAt),
                    rmFailAt)

\* CrowdCounter.count_multiple_images: one count per path, read from the
\* file at that path
CountMultipleImages(ups, paths) ==
    [j \in 1..Len(paths) |-> ModelCount(ups[paths[j]])]

\* zip(files, counts) formatted
BatchResults(files, counts) ==
    [j \in 1..(IF Len(files) < Len(counts) THEN Len(files) ELSE Len(counts)) |->
        [filename |-> files[j].filename,
         estimated_count |-> Round2(counts[j]),
         status |-> "success"]]

\* a variant of TooManyFiles that also refuses a batch of exactly the limit
TooManyFilesInclusive(files) == Len(files) >= BatchLimit

\* if len(files) > 10
TooManyFiles(files) == Len(files) > BatchLimit

\* if len(files) == 0
NoFiles(files) == Len(files) = 0

PredictBatchRun(ml, cc, files, now, ups, fail, modelOk, postOk, rmFailAt) ==
    IF ModelNotLoaded(ml, cc)
    THEN [response |-> Error(503, "Model not loaded"), uploads |-> ups,
          last |-> Did("predict-batch", files, FALSE, {}, 0)]
    ELSE IF TooManyFiles(files)
    THEN [response |-> Error(400, "Maximum 10 files allowed"), uploads |-> ups,
          last |-> Did("predict-batch", files, FALSE, {}, 0)]
    ELSE IF NoFiles(files)
    THEN [response |-> Error(400, "No files provided"), uploads |-> ups,
          last |-> Did("predict-batch", files, FALSE, {}, 0)]
    ELSE
      LET acc == SaveAll(1, files, now,
                         [uploads |-> ups, paths |-> <<>>, created |-> {},
                          error |-> None],
                         fail)
          after == CleanUpAll(1, acc.paths, acc.uploads, rmFailAt)
      IN  IF acc.error # None
          THEN [response |-> acc.error, uploads |-> after,
                last |-> Did("predict-batch", files, TRUE, acc.created, 0)]
          ELSE
            LET did == Did("predict-batch", files, TRUE, acc.created, 1)
            IN  IF ~modelOk
                THEN [response |-> Error(500, "Batch processing failed"),
                      uploads |-> after, last |-> did]
                ELSE IF ~postOk
                THEN [response |-> Error(500, "Batch prediction failed"),
                      uploads |-> after, last |-> did]
                ELSE [response |->
                        [status |-> 200, success |-> TRUE,
                         results |->
                            BatchResults(files,
                                CountMultipleImages(acc.uploads, acc.paths)),
                         total_images |-> Len(files),
                         model_info |-> ModelInfo(cc)],
                      uploads |-> after, last |-> did]

(***************************************************************************)
(* The requests the model sends.                                           *)
(***************************************************************************)
Stems == { <<>>, <<"a">>, <<".">>, <<"d", "/">>, <<"a", ".", "b">> }

Suffixes ==
    { <<>>, <<".", "p", "n", "g">>, <<".", "P", "N", "G">>,
      <<".", "J", "p", "g">>, <<".", "J", "P", "E", "G">>,
      <<".", "b", "m", "p">>, <<".", "T", "I", "F", "F">>,
      <<".", "t", "i", "f">>, <<".", "g", "i", "f">>, <<".">>,
      <<".", "p", "n", "g", "/", "x">>, <<"p", "n", "g">> }

Filenames == {st \o su : st \in Stems, su \in Suffixes}

\* the uploads of POST /predict
Files == [filename : Filenames, content : {<<"img", 1>>}]

\* the files the short batches are made of: two good ones, a second upload
\* named like the first, an unsupported type, an empty name
BatchFiles ==
    { [filename |-> <<"a", ".", "p", "n", "g">>, content |-> <<"img", 1>>],
      [filename |-> <<"b", ".", "J", "P", "G">>, content |-> <<"img", 2>>],
      [filename |-> <<"a", ".", "p", "n", "g">>, content |-> <<"img", 3>>],
      [filename |-> <<"a", ".", "g", "i", "f">>, content |-> <<"img", 4>>],
      [filename |-> <<>>, content |-> <<"img", 5>>] }

\* the length up to which every sequence of BatchFiles is sent
MaxVaried == 2

\* a batch of n good files with n different names
Numbered(n) ==
    [i \in 1..n |->
        [filename |-> [j \in 1..i |-> "x"] \o <<".", "p", "n", "g">>,
         content |-> <<"img", i>>]]

Batches ==
    UNION {[1..n -> BatchFiles] : n \in 0..MaxVaried}
        \cup {Numbered(BatchLimit), Numbered(BatchLimit + 1)}

\* what the file system does to a save (see SaveUploadedFile)
SaveOutcomes == <<"partial", "no_file", "ok">>

\* what else can go wrong in POST /predict once the save went as `sv`:
\* count_people returning None; building the response raising; the
\* density map image failing; the final os.remove raising
Faults(sv) ==
    IF sv = "ok"
    THEN {[sv |-> sv, modelOk |-> m, dmOk |-> d, postOk |-> p, rmOk |-> r] :
            m \in BOOLEAN, d \in BOOLEAN, p \in BOOLEAN, r \in BOOLEAN}
    ELSE {[sv |-> sv, modelOk |-> TRUE, dmOk |-> TRUE, postOk |-> TRUE,
           rmOk |-> TRUE]}

\* what can go wrong in POST /predict-batch for a batch of n files: the
\* save of the first or the last file, count_multiple_images returning
\* None, building the response raising, one os.remove raising
BatchFaults(n) ==
    {[at |-> a, sv |-> sv, modelOk |-> TRUE, postOk |-> TRUE, rmFailAt |-> r] :
        a \in {1, n} \ {0}, sv \in {"no_file", "partial"}, r \in {0, 1}}
        \cup {[at |-> 0, sv |-> "ok", modelOk |-> m, postOk |-> p,
               rmFailAt |-> r] :
                 m \in BOOLEAN, p \in BOOLEAN, r \in {0, 1, n}}

(***************************************************************************)
(* The API process. A behaviour follows the process from its start through *)
(* one request; the requests served before it are present as what they can *)
(* have left under uploads/ (see SaveUploadedFile and CleanUp).            *)
(***************************************************************************)
\* uploads/ as the process finds it: empty, or holding the file an earlier
\* upload named a.png left behind in second 0
InitialUploads ==
    { <<>>,
      [q \in {FilePath(0, <<"a", ".", "p", "n", "g">>)} |-> <<"truncated">>] }

ApiInit ==
    /\ api_started = FALSE
    /\ crowd_counter = None
    /\ model_loaded = FALSE
    /\ tried = <<>>
    /\ lwcc_loads = {}
    /\ clock = 0
    /\ uploads = <<>>
    /\ response = None
    /\ last = None

\* the process starts: startup_event, and what is under uploads/
Startup ==
    /\ ~api_started
    /\ \E loadable \in SUBSET {ModelConfigs[i] : i \in 1..Len(ModelConfigs)} :
         LET st == StartupFrom(1, loadable,
                               [crowd_counter |-> crowd_counter,
                                model_loaded |-> model_loaded,
                                tried |-> tried])
         IN  /\ crowd_counter' = st.crowd_counter
             /\ model_loaded' = st.model_loaded
             /\ tried' = st.tried
             /\ lwcc_loads' = loadable
    /\ uploads' \in InitialUploads
    /\ api_started' = TRUE
    /\ UNCHANGED <<clock, response, last>>
    /\ UNCHANGED videoVars

\* time passes
Tick ==
    /\ clock < MaxClock
    /\ clock' = clock + 1
    /\ UNCHANGED <<api_started, crowd_counter, model_loaded, tried,
                   lwcc_loads, uploads, response, last>>
    /\ UNCHANGED videoVars

\* POST /predict
Predict ==
    /\ api_started
    /\ response = None
    /\ \E file \in Files, i \in 1..Len(SaveOutcomes) :
         \E f \in Faults(SaveOutcomes[i]) :
         \E r \in {PredictRun(model_loaded, crowd_counter, file, clock,
                              uploads, f.sv, f.modelOk, f.dmOk, f.postOk,
                              f.rmOk)} :
            /\ response' = r.response
            /\ uploads' = r.uploads
            /\ last' = r.last
    /\ UNCHANGED <<api_started, crowd_counter, model_loaded, tried,
                   lwcc_loads, clock>>
    /\ UNCHANGED videoVars

\* POST /predict-batch
PredictBatch ==
    /\ api_started
    /\ response = None
    /\ \E files \in Batches :
         \E f \in BatchFaults(Len(files)) :
            \E r \in {PredictBatchRun(model_loaded, crowd_counter, files,
                                      clock, uploads,
                                      [at |-> f.at, sv |-> f.sv],
                                      f.modelOk, f.postOk, f.rmFailAt)} :
                /\ response' = r.response
                /\ uploads' = r.uploads
                /\ last' = r.last
    /\ UNCHANGED <<api_started, crowd_counter, model_loaded, tried,
                   lwcc_loads, clock>>
    /\ UNCHANGED videoVars

ApiNext ==
    \/ Startup
    \/ Tick
    \/ Predict
    \/ PredictBatch

vars == <<videoVars, apiVars>>

Init == VideoInit /\ ApiInit

\* the dashboard
Next == VideoNext

Spec == Init /\ [][Next]_vars

\* the API process
ApiSpec == Init /\ [][ApiNext]_vars

(***************************************************************************)
(* Properties of the video pipeline (checked under Spec).                  *)
(***************************************************************************)
\* the frame tasks of a sequence of queue items, the sentinel left out
Frames(s) == SelectSeq(s, LAMBDA x : x # None)

Sentinels(s) == Len(s) - Len(Frames(s))

Successes(s) == SelectSeq(s, LAMBDA r : r.success)

\* main() has left the producer loop normally
LoopFinished ==
    mpc \in {"qsize", "sentinel", "alive", "poll2", "get2", "poll3", "get3",
             "report", "final"}

\* C1: no frame is dropped. Every item put on task_queue is dequeued by the
\* worker once, in order, and every frame the worker has dequeued and
\* finished has put exactly one record on result_queue, carrying that
\* frame's timestamp, whatever the request did; so when the worker has
\* exited there is one record per frame that was ever enqueued.
C1_NoFrameDropped ==
    /\ enqueued = dequeued \o task_queue
    /\ Len(produced) =
         Len(Frames(dequeued)) - (IF wpc \in {"post", "wait"} THEN 1 ELSE 0)
    /\ \A j \in 1..Len(produced) : produced[j].time = Frames(dequeued)[j][1]
    /\ wpc = "done" =>
         /\ Frames(dequeued) = Frames(enqueued)
         /\ Len(produced) = Len(Frames(enqueued))

C1_Witness ==
    /\ wpc = "done"
    /\ Len(produced) = 3
    /\ \E j \in 1..3 : produced[j].success
    /\ \E j \in 1..3 : ~produced[j].success /\ produced[j].error = <<"exception">>
    /\ \E j \in 1..3 : ~produced[j].success /\ produced[j].error = <<"API", 503>>

\* C2: when the final status message is shown the worker has terminated,
\* both queues are empty and results_list holds one entry, in order, for
\* every successful record the worker ever put on result_queue.
C2_DrainedAtEnd ==
    mpc = "final" =>
        /\ wpc = "done"
        /\ task_queue = <<>>
        /\ result_queue = <<>>
        /\ Len(results_list) = Len(Successes(produced))
        /\ \A j \in 1..Len(results_list) :
             /\ results_list[j].Count = Successes(produced)[j].count
             /\ results_list[j].Time = Round1(Successes(produced)[j].time)

C2_Witness ==
    /\ mpc = "final"
    /\ status = <<"success">>
    /\ Len(results_list) = 2
    /\ Len(produced) = 3

\* the steps of main()
MainNext ==
    \/ UploadVideo \/ StartAnalysis \/ ReadFrame \/ PollWhileReading
    \/ GetWhileReading \/ QSize \/ PutSentinel \/ CheckAlive
    \/ PollWhileAlive \/ GetWhileAlive \/ PollFinal \/ GetFinal \/ Report

\* C3: the main thread never blocks. Until main() has finished (or raised)
\* its next step can always be taken, whatever the worker is doing: a put
\* never waits, and main() stands at a result_queue.get() only while
\* result_queue is non-empty.
C3_MainNeverBlocks ==
    /\ mpc \in {"get1", "get2", "get3"} => result_queue # <<>>
    /\ mpc \notin {"final", "crashed"} => ENABLED MainNext

C3_Witness ==
    /\ mpc = "get1"
    /\ inflight = 1
    /\ Len(task_queue) >= 1

\* ceil(N / k) for the video and stride of this run
SampledTotal ==
    IF frames_to_process >= 1
    THEN (nframes + frames_to_process - 1) \div frames_to_process
    ELSE 0

\* C4 as amended: task_queue has no capacity of its own; the frames pending
\* on it are limited only by the number of sampled frames of the video,
\* ceil(N / k) (one more item with the sentinel).
C4_PendingAtMostSampled ==
    /\ Len(Frames(task_queue)) <= SampledTotal
    /\ Len(task_queue) <= SampledTotal + 1

\* every frame of the longest video and the sentinel are pending at once
C4_Witness ==
    /\ Len(Frames(task_queue)) = MaxFrames
    /\ Len(task_queue) = MaxFrames + 1

\* a capacity that does not grow with the video: any below the longest
\* video's length
TaskQueueCapacity == MaxFrames - 1

\* C4 as stated: the frames pending on task_queue never exceed a fixed
\* capacity, whatever the video length and however slow the worker.
C4_FixedCapacity == Len(Frames(task_queue)) <= TaskQueueCapacity

\* C5: one run starts exactly one worker thread, at most one /predict
\* request of the pipeline is in flight, and while one is in flight the
\* worker is waiting for it (it is not back at task_queue.get()).
C5_BoundedConcurrency ==
    /\ inflight \in {0, 1}
    /\ inflight = 1 <=> wpc = "wait"
    /\ threads = IF wpc = "none" THEN 0 ELSE 1
    /\ mpc \in {"read", "poll1", "get1"} \/ LoopFinished => threads = 1

C5_Witness ==
    /\ inflight = 1
    /\ Len(Frames(task_queue)) >= 2

\* C6 as stated: the sentinel is enqueued exactly once per run (at most
\* once at any time, once when the run has ended) and only after the last
\* frame; the worker has exited iff it has dequeued the sentinel, and by
\* then it has processed every frame enqueued before it.
C6_SentinelStopsWorker ==
    /\ Sentinels(enqueued) <= 1
    /\ Sentinels(enqueued) = 1 =>
         /\ enqueued[Len(enqueued)] = None
         /\ LoopFinished
    /\ (threads = 1 /\ mpc \in {"final", "crashed"}) => Sentinels(enqueued) = 1
    /\ wpc = "done" <=> Sentinels(dequeued) = 1
    /\ wpc = "done" => Len(produced) = Len(Frames(enqueued))

\* the parts of C6 that hold in every run: at most one sentinel, put after
\* the last frame; exit iff the sentinel was dequeued, all frames processed
C6_SentinelSafety ==
    /\ Sentinels(enqueued) <= 1
    /\ Sentinels(enqueued) = 1 =>
         /\ enqueued[Len(enqueued)] = None
         /\ LoopFinished
    /\ mpc = "final" => Sentinels(enqueued) = 1
    /\ wpc = "done" <=> Sentinels(dequeued) = 1
    /\ wpc = "done" => Len(produced) = Len(Frames(enqueued))

\* frames main() has passed through the interval check
FramesHandled ==
    IF mpc \in {"poll1", "get1"} THEN current_frame + 1 ELSE current_frame

Answered == response # None

\* C8 as stated: after any POST /predict, whatever happened in it, no file
\* the request created remains under uploads/.
C8_UploadCleanedUp ==
    (Answered /\ last.endpoint = "predict") =>
        last.created \cap DOMAIN uploads = {}

\* C9: while the model is not loaded both endpoints answer 503 and do
\* nothing else: no upload is validated, uploads/ is untouched and the
\* model is not called.
C9_NotLoaded503 ==
    [][(/\ response' # response
        /\ ~model_loaded \/ crowd_counter = None \/ crowd_counter.model = None)
       => /\ response'.status = 503
          /\ uploads' = uploads
          /\ ~last'.validated
          /\ last'.created = {}
          /\ last'.model_calls = 0]_vars

C9_Witness ==
    /\ Answered
    /\ last.endpoint = "predict-batch"
    /\ Len(last.files) = 2
    /\ ~model_loaded
    /\ crowd_counter # None
    /\ crowd_counter.model = None
    /\ response.status = 503

\* the lower-cased extension of a file name
LowerCasedExtension(name) == Lower(SplitExt(name))

\* the upload of a POST /predict is one the endpoint must reject
MustReject(name) ==
    name = <<>> \/ LowerCasedExtension(name) \notin AllowedExtensions

\* C10 as stated: POST /predict answers 400 to an upload whose filename is
\* empty or whose lower-cased extension is not allowed, writing nothing
\* and not calling the model; a name with an allowed extension, in any
\* letter case, passes validation.
C10_Rejects400 ==
    (Answered /\ last.endpoint = "predict") =>
        LET name == last.files[1].filename
        IN  IF MustReject(name)
            THEN /\ response.status = 400
                 /\ last.created = {}
                 /\ last.model_calls = 0
            ELSE /\ last.validated
                 /\ response.status \in {200, 500}

\* C10 as amended: the same, of a POST /predict that arrives while the
\* model is loaded (otherwise the answer is 503, see C9).
C10_Rejects400WhenLoaded ==
    (/\ Answered /\ last.endpoint = "predict"
     /\ model_loaded /\ crowd_counter # None /\ crowd_counter.model # None)
        => LET name == last.files[1].filename
           IN  IF MustReject(name)
               THEN /\ response.status = 400
                    /\ last.created = {}
                    /\ last.model_calls = 0
               ELSE /\ last.validated
                    /\ response.status \in {200, 500}

C10_Witness ==
    /\ Answered
    /\ last.endpoint = "predict"
    /\ model_loaded
    /\ last.files[1].filename = <<"a", ".", "t", "i", "f">>
    /\ response.status = 400

(***************************************************************************)
(* POST /predict-batch: the number of files.                               *)
(***************************************************************************)
BatchAnswered == Answered /\ last.endpoint = "predict-batch"

\* the request was refused for its number of files, before the loop over files
RejectedForNumber ==
    /\ response.status = 400
    /\ response.detail \in {"Maximum 10 files allowed", "No files provided"}
    /\ ~last.validated
    /\ last.created = {}
    /\ last.model_calls = 0

\* C11 as stated: POST /predict-batch accepts between 1 and 10 files; a
\* request with more than 10 files or with 0 files is rejected with 400
\* before any file is validated or saved.
C11_NumberOfFiles ==
    BatchAnswered =>
        IF Len(last.files) > 10 \/ Len(last.files) = 0
        THEN RejectedForNumber
        ELSE ~RejectedForNumber

\* C11, amended: when the model is loaded, a request with more than 10 files
\* or with 0 files is rejected with 400 before any file is validated or saved
\* (no file of it is created, the model is not called), and a request with 1
\* to 10 files is never rejected for its number: its files are validated.
C11_NumberOfFilesWhenLoaded ==
    (BatchAnswered /\ ~ModelNotLoaded(model_loaded, crowd_counter)) =>
        IF Len(last.files) > 10 \/ Len(last.files) = 0
        THEN RejectedForNumber
        ELSE ~RejectedForNumber /\ last.validated

C11_Witness ==
    /\ BatchAnswered
    /\ model_loaded
    /\ Len(last.files) = 11
    /\ RejectedForNumber

C11_WitnessAccepted ==
    /\ BatchAnswered
    /\ model_loaded
    /\ Len(last.files) = 10
    /\ response.status = 200

C11_WitnessEmpty ==
    /\ BatchAnswered
    /\ model_loaded
    /\ Len(last.files) = 0
    /\ RejectedForNumber

(***************************************************************************)
(* POST /predict-batch: the results.                                       *)
(***************************************************************************)
BatchSucceeded == BatchAnswered /\ response.status = 200

\* what the model answers for one upload's own content, as the response
\* reports it
OwnCount(file) == Round2(1000 * file.content[2] + 344)

\* C12 as stated: a successful POST /predict-batch returns counts for all
\* images: results has exactly one entry per uploaded file, in upload order,
\* each entry pairing file i's filename with the model's count for file i's
\* own content, and total_images equals the number of entries in results.
C12_OneEntryPerFile ==
    BatchSucceeded =>
        /\ Len(response.results) = Len(last.files)
        /\ \A j \in 1..Len(last.files) :
              /\ response.results[j].filename = last.files[j].filename
              /\ response.results[j].estimated_count = OwnCount(last.files[j])
        /\ response.total_images = Len(response.results)

\* two uploads of one request share a filename
SharedName ==
    \E j, k \in 1..Len(last.files) :
        j # k /\ last.files[j].filename = last.files[k].filename

\* the part of C12 that holds: one entry per file, in upload order, with the
\* file's name, and total_images counts them; the count is the file's own
\* when no two files of the request share a filename
C12_PairedWhenNamesDiffer ==
    BatchSucceeded =>
        /\ Len(response.results) = Len(last.files)
        /\ \A j \in 1..Len(last.files) :
              /\ response.results[j].filename = last.files[j].filename
              /\ ~SharedName =>
                    response.results[j].estimated_count = OwnCount(last.files[j])
        /\ response.total_images = Len(response.results)

C12_SharedNameServed == BatchSucceeded /\ SharedName

(***************************************************************************)
(* Startup: which model is loaded.                                         *)
(***************************************************************************)
\* the order the specification gives
StatedOrder ==
    << <<"DM-Count", "SHA">>, <<"CSRNet", "SHA">>, <<"SFANet", "SHA">>,
       <<"CSRNet", "SHB">> >>

\* the positions of the configurations that load
LoadablePositions == {i \in 1..Len(StatedOrder) : StatedOrder[i] \in lwcc_loads}

\* crowd_counter is the counter of configuration i, with its model loaded
HoldsConfiguration(i) ==
    /\ crowd_counter # None
    /\ crowd_counter.model # None
    /\ <<crowd_counter.model_name, crowd_counter.model_weights>> = StatedOrder[i]

\* C13: on startup the configurations are tried in the order (DM-Count, SHA),
\* (CSRNet, SHA), (SFANet, SHA), (CSRNet, SHB); a later one is tried only if
\* every earlier one failed, trying stops at the first one that loads, and
\* after startup model_loaded is true if and only if crowd_counter.model is
\* not None and crowd_counter names that first loadable configuration; if
\* none loads, model_loaded stays false and startup still completes.
C13_FirstLoadableWins ==
    /\ ~api_started => ENABLED Startup
    /\ api_started =>
        /\ Len(tried) \in 1..Len(StatedOrder)
        /\ \A i \in 1..Len(tried) :
              /\ tried[i] = StatedOrder[i]
              /\ \A j \in 1..(i - 1) : StatedOrder[j] \notin lwcc_loads
        /\ IF LoadablePositions = {}
           THEN /\ ~model_loaded
                /\ Len(tried) = Len(StatedOrder)
                /\ crowd_counter.model = None
           ELSE \E first \in LoadablePositions :
                /\ \A i \in LoadablePositions : first <= i
                /\ Len(tried) = first
                /\ model_loaded
                /\ HoldsConfiguration(first)
        /\ model_loaded <=>
              /\ crowd_counter.model # None
              /\ \E first \in LoadablePositions :
                    /\ \A i \in LoadablePositions : first <= i
                    /\ HoldsConfiguration(first)

\* the first two configurations fail, the third and the fourth could load
C13_Witness ==
    /\ api_started
    /\ LoadablePositions = {3, 4}
    /\ model_loaded
    /\ HoldsConfiguration(3)
    /\ Len(tried) = 3

\* no configuration loads and the API starts all the same
C13_WitnessNoneLoads ==
    /\ api_started
    /\ LoadablePositions = {}
    /\ ~model_loaded
    /\ Len(tried) = 4

====
